---- MODULE Spec2Model ----
(***************************************************************************)
(* A model of go-ipset, the Go wrapper around the ipset(8) command line    *)
(* utility (package ipset: ipset.go, internal.go).                         *)
(*                                                                         *)
(* Text (a Go string or []byte) is a sequence of one-character strings, so *)
(* that the regular expressions, strings.HasPrefix, strings.Split and      *)
(* strconv.Itoa are computed character by character.  An error message is  *)
(* a sequence of fragments (format literals followed by the characters of  *)
(* the formatted arguments).                                               *)
(***************************************************************************)
EXTENDS Integers, Sequences, FiniteSets, TLC

VARIABLES
    sets,        \* the kernel's sets: set name -> whether it exists, its members
    env,         \* what the environment hands to the call under study
    ret,         \* the last finished library call: arguments, invocations, results
    rp,          \* the Replace call in progress (its position), or idle
    interfered   \* another process changed the set since Replace started

vars == <<sets, env, ret, rp, interfered>>

----------------------------------------------------------------------------
(* Text helpers *)

Digits == {"0", "1", "2", "3", "4", "5", "6", "7", "8", "9"}

DigitVal(c) ==
    CASE c = "0" -> 0 [] c = "1" -> 1 [] c = "2" -> 2 [] c = "3" -> 3
      [] c = "4" -> 4 [] c = "5" -> 5 [] c = "6" -> 6 [] c = "7" -> 7
      [] c = "8" -> 8 [] c = "9" -> 9

DigitChar(d) ==
    CASE d = 0 -> "0" [] d = 1 -> "1" [] d = 2 -> "2" [] d = 3 -> "3"
      [] d = 4 -> "4" [] d = 5 -> "5" [] d = 6 -> "6" [] d = 7 -> "7"
      [] d = 8 -> "8" [] d = 9 -> "9"

\* All sequences over S of length at most n.
SeqsUpTo(S, n) == UNION {[1..k -> S] : k \in 0..n}

\* Go's t[i:] with a 1-based index.
From(t, i) == SubSeq(t, i, Len(t))

\* strings.HasPrefix
HasPrefix(s, prefix) ==
    /\ Len(s) >= Len(prefix)
    /\ SubSeq(s, 1, Len(prefix)) = prefix

\* pattern occurs in t at position i
OccursAt(t, pattern, i) ==
    /\ i >= 1
    /\ i + Len(pattern) - 1 <= Len(t)
    /\ SubSeq(t, i, i + Len(pattern) - 1) = pattern

\* An error value: nil, or an error with its message.
NilErr == [nil |-> TRUE, msg |-> <<>>]
Errorf(message) == [nil |-> FALSE, msg |-> message]

----------------------------------------------------------------------------
(* IPSet.run: one invocation of the ipset binary.  exit = 0: the process   *)
(* ran and exited 0; exit = 1: it exited non-zero; exit = -1: it could not *)
(* be started.  c.Run() returns a non-nil error in the last two cases.     *)

RunErr(exit) ==
    IF exit = 0 THEN NilErr
    ELSE IF exit = 1 THEN Errorf(<<"exit status 1">>)
    ELSE Errorf(<<"fork/exec: permission denied">>)

----------------------------------------------------------------------------
(* checkVersion and New *)

\* const minIPSetVersion = "6.0.0"
minIPSetVersion == <<"6", ".", "0", ".", "0">>

\* End (exclusive) of the longest run of digits of t that starts at i.
RECURSIVE DigitEnd(_, _)
DigitEnd(t, i) ==
    IF i <= Len(t) /\ t[i] \in Digits THEN DigitEnd(t, i + 1) ELSE i

\* The match of v[0-9]+\.[0-9]+ that starts at i, or <<>>.
VersionMatchAt(t, i) ==
    IF i > Len(t) \/ t[i] # "v" THEN <<>>
    ELSE LET d1 == DigitEnd(t, i + 1) IN
         IF d1 = i + 1 \/ d1 > Len(t) \/ t[d1] # "." THEN <<>>
         ELSE LET d2 == DigitEnd(t, d1 + 1) IN
              IF d2 = d1 + 1 THEN <<>> ELSE SubSeq(t, i, d2 - 1)

\* regexp.MustCompile(`v[0-9]+\.[0-9]+`).FindSubmatch(t)[0]: the leftmost
\* match, or <<>> for a nil match.
RECURSIVE FindVersionFrom(_, _)
FindVersionFrom(t, i) ==
    IF i > Len(t) THEN <<>>
    ELSE IF VersionMatchAt(t, i) # <<>> THEN VersionMatchAt(t, i)
    ELSE FindVersionFrom(t, i + 1)

FindVersion(t) == FindVersionFrom(t, 1)

\* strings.SplitN(s, ".", n)
RECURSIVE SplitDotN(_, _)
SplitDotN(s, n) ==
    IF n = 1 \/ \A i \in 1..Len(s) : s[i] # "." THEN <<s>>
    ELSE LET i == CHOOSE k \in 1..Len(s) :
                      s[k] = "." /\ \A j \in 1..(k - 1) : s[j] # "."
         IN <<SubSeq(s, 1, i - 1)>> \o SplitDotN(From(s, i + 1), n - 1)

\* strconv.ParseInt(s, 10, 64) on an unsigned decimal: -1 stands for its error.
RECURSIVE DecimalValue(_)
DecimalValue(s) ==
    IF Len(s) = 0 THEN 0
    ELSE 10 * DecimalValue(SubSeq(s, 1, Len(s) - 1)) + DigitVal(s[Len(s)])

ParseInt(s) ==
    IF Len(s) = 0 \/ \E i \in 1..Len(s) : s[i] \notin Digits THEN -1
    ELSE DecimalValue(s)

\* semver.NewVersion: the dotted triple, or <<>> for its error.
NewVersion(s) ==
    LET parts == SplitDotN(s, 3) IN
    IF Len(parts) # 3 THEN <<>>
    ELSE IF \E i \in 1..3 : ParseInt(parts[i]) = -1 THEN <<>>
    ELSE <<ParseInt(parts[1]), ParseInt(parts[2]), ParseInt(parts[3])>>

\* A comparison that drops a version only when major and minor are both
\* smaller.
LessThanBothSmaller(a, b) == a[1] < b[1] /\ a[2] <= b[2] /\ a[3] <= b[3]

\* semver.Version.LessThan (no pre-release part occurs here)
LessThan(a, b) ==
    \/ a[1] < b[1]
    \/ a[1] = b[1] /\ a[2] < b[2]
    \/ a[1] = b[1] /\ a[2] = b[2] /\ a[3] < b[3]

\* checkVersion on the outcome of `ipset --version`: (supported, err)
checkVersion(exit, stdout, stderr) ==
    LET minVersion == NewVersion(minIPSetVersion)
        match == FindVersion(stdout)
        vstring == match \o <<".", "0">>
        version == NewVersion(From(vstring, 2))
    IN
    IF minVersion = <<>>
      THEN [supported |-> FALSE,
            err |-> Errorf(<<"unable to parse minIPSetVersion: ">>)]
    ELSE IF exit # 0
      THEN [supported |-> FALSE,
            err |-> Errorf(<<"unable to get ipset version: ">> \o RunErr(exit).msg
                           \o <<": ">> \o stderr)]
    ELSE IF match = <<>>
      THEN [supported |-> FALSE,
            err |-> Errorf(<<"unable to parse ipset version">>)]
    ELSE IF version = <<>>
      THEN [supported |-> FALSE, err |-> Errorf(<<"not in dotted-tri format">>)]
    ELSE IF LessThan(version, minVersion)
      THEN [supported |-> FALSE, err |-> NilErr]
    ELSE [supported |-> TRUE, err |-> NilErr]

\* New's two results: ips (TRUE for a non-nil *IPSet) and err.
NewResult(look, exit, stdout, stderr) ==
    IF ~look
      THEN [ips |-> FALSE, err |-> Errorf(<<"executable file not found in $PATH">>)]
    ELSE LET cv == checkVersion(exit, stdout, stderr) IN
         IF ~cv.err.nil
           THEN [ips |-> FALSE,
                 err |-> Errorf(<<"error validating ipset version: ">> \o cv.err.msg)]
         ELSE IF ~cv.supported
           THEN [ips |-> FALSE, err |-> Errorf(<<"ipset version is not supported">>)]
         ELSE [ips |-> TRUE, err |-> NilErr]

----------------------------------------------------------------------------
(* State shared by the specifications *)

Idle == [active |-> FALSE]
NoCall == [op |-> "none"]

\* The characters `ipset --version` output is drawn from, and its length.
VersionAlphabet == {"v", ".", "0", "1", "6"}
MaxVersionLen == 5

StdErrs == {<<>>, <<"E", "r">>}

(* SpecVersion: New against every outcome of LookPath and `ipset --version` *)

InitVersion ==
    /\ sets = <<>>
    /\ rp = Idle
    /\ interfered = FALSE
    /\ ret = NoCall
    /\ \E look \in BOOLEAN, exit \in {0, 1, -1},
          stdout \in SeqsUpTo(VersionAlphabet, MaxVersionLen), stderr \in StdErrs :
         /\ exit = -1 => stdout = <<>> /\ stderr = <<>>
         /\ env = [look |-> look, exit |-> exit, stdout |-> stdout, stderr |-> stderr]

New ==
    /\ ret.op = "none"
    /\ LET r == NewResult(env.look, env.exit, env.stdout, env.stderr) IN
       ret' = [op |-> "New", ips |-> r.ips, err |-> r.err]
    /\ UNCHANGED <<sets, env, rp, interfered>>

NextVersion == New

SpecVersion == InitVersion /\ [][NextVersion]_vars

----------------------------------------------------------------------------
(* The ipset binary and the kernel's sets, as far as the wrapper sees them *)

\* Command words
tCreate   == <<"c", "r", "e", "a", "t", "e">>
tAdd      == <<"a", "d", "d">>
tDel      == <<"d", "e", "l">>
tTest     == <<"t", "e", "s", "t">>
tDestroy  == <<"d", "e", "s", "t", "r", "o", "y">>
tList     == <<"l", "i", "s", "t">>
tFlush    == <<"f", "l", "u", "s", "h">>
tSwap     == <<"s", "w", "a", "p">>
tSave     == <<"s", "a", "v", "e">>
tRestore  == <<"r", "e", "s", "t", "o", "r", "e">>
tFamily   == <<"f", "a", "m", "i", "l", "y">>
tHashsize == <<"h", "a", "s", "h", "s", "i", "z", "e">>
tMaxelem  == <<"m", "a", "x", "e", "l", "e", "m">>
tTimeout  == <<"t", "i", "m", "e", "o", "u", "t">>
tInet     == <<"i", "n", "e", "t">>
tInet6    == <<"i", "n", "e", "t", "6">>
tHashPfx  == <<"h", "a", "s", "h", ":">>
tSorted   == <<"-", "s", "o", "r", "t", "e", "d">>
tDashN    == <<"-", "n">>
tExist    == <<"-", "e", "x", "i", "s", "t">>
tMembers  == <<"M", "e", "m", "b", "e", "r", "s", ":">>
tNameHdr  == <<"N", "a", "m", "e", ":", " ">>
tRefsHdr  == <<"R", "e", "f", "e", "r", "e", "n", "c", "e", "s", ":", " ", "0">>
tIsInSet  == <<"i", "s", " ", "i", "n", " ", "s", "e", "t">>
tNotInSet == <<"i", "s", " ", "N", "O", "T", " ", "i", "n", " ", "s", "e", "t">>
NL == "\n"

\* Set names and entries of the model; EntryOrder is the order `-sorted` uses.
Names == {<<"a">>, <<"b">>}
NameOrder == <<(<<"a">>), (<<"b">>)>>
Entries == {<<"1", ".", "1">>, <<"2", ".", "2">>}
EntryOrder == <<(<<"1", ".", "1">>), (<<"2", ".", "2">>)>>

Absent == [exists |-> FALSE, members |-> {}]
Present(m) == [exists |-> TRUE, members |-> m]
SetStates == {Absent} \cup {Present(m) : m \in SUBSET Entries}
KernelStates == [Names -> SetStates]

Range(q) == {q[i] : i \in 1..Len(q)}

\* The sequences that list every element of the finite set S exactly once.
Orderings(S) ==
    {q \in [1..Cardinality(S) -> S] : \A i, j \in 1..Cardinality(S) : q[i] = q[j] => i = j}

\* The elements of the sequence order that are in S, in that order.
RECURSIVE Sorted(_, _)
Sorted(S, order) ==
    IF order = <<>> THEN <<>>
    ELSE (IF Head(order) \in S THEN <<Head(order)>> ELSE <<>>) \o Sorted(S, Tail(order))

\* The lines of q, each followed by a newline, as one text.
RECURSIVE Unlines(_)
Unlines(q) == IF q = <<>> THEN <<>> ELSE Head(q) \o <<NL>> \o Unlines(Tail(q))

\* `ipset list NAME`: the header lines, "Members:", one line per member.
ListOutput(name, memberSeq) ==
    Unlines(<<tNameHdr \o name, tRefsHdr, tMembers>> \o memberSeq)

\* `ipset list -n`: one line per set.
ListNamesOutput(st) == Unlines(Sorted({n \in Names : st[n].exists}, NameOrder))

\* `ipset save`: for every set a create line and an add line per member.
RECURSIVE SaveLines(_, _)
SaveLines(st, order) ==
    IF order = <<>> THEN <<>>
    ELSE LET n == Head(order)
             adds == Sorted(st[n].members, EntryOrder)
         IN (IF st[n].exists
               THEN <<tCreate \o <<" ">> \o n>>
                    \o [i \in 1..Len(adds) |-> tAdd \o <<" ">> \o n \o <<" ">> \o adds[i]]
               ELSE <<>>)
            \o SaveLines(st, Tail(order))

SaveOutput(st) == Unlines(SaveLines(st, NameOrder))

\* What a successful run of cmd (with stdin) does: the possible pairs of its
\* stdout and the kernel state it leaves; empty when ipset refuses the command.
KernelRun(cmd, stdin, st) ==
    LET verb == cmd[1]
        n == IF Len(cmd) >= 2 THEN cmd[2] ELSE <<>>
        e == IF Len(cmd) >= 3 THEN cmd[3] ELSE <<>>
        exist == tExist \in Range(cmd)
        known == n \in Names /\ st[n].exists
        same == {[stdout |-> <<>>, sets |-> st]}
        to(m) == {[stdout |-> <<>>, sets |-> [st EXCEPT ![n] = Present(m)]]}
    IN
    CASE verb = tCreate ->
           IF n \notin Names THEN {}
           ELSE IF st[n].exists THEN (IF exist THEN same ELSE {})
           ELSE to({})
      [] verb = tAdd ->
           IF ~known \/ e \notin Entries THEN {}
           ELSE IF e \in st[n].members THEN (IF exist THEN same ELSE {})
           ELSE to(st[n].members \cup {e})
      [] verb = tDel ->
           IF ~known \/ e \notin Entries THEN {}
           ELSE IF e \notin st[n].members THEN (IF exist THEN same ELSE {})
           ELSE to(st[n].members \ {e})
      [] verb = tFlush ->
           IF Len(cmd) = 1 THEN
             {[stdout |-> <<>>,
               sets |-> [x \in Names |-> IF st[x].exists THEN Present({}) ELSE Absent]]}
           ELSE IF ~known THEN {} ELSE to({})
      [] verb = tDestroy ->
           IF Len(cmd) = 1 THEN {[stdout |-> <<>>, sets |-> [x \in Names |-> Absent]]}
           ELSE IF ~known THEN {}
           ELSE {[stdout |-> <<>>, sets |-> [st EXCEPT ![n] = Absent]]}
      [] verb = tSwap ->
           IF ~known \/ e \notin Names \/ ~st[e].exists THEN {}
           ELSE {[stdout |-> <<>>, sets |-> [st EXCEPT ![n] = st[e], ![e] = st[n]]]}
      [] verb = tList ->
           IF n = tDashN THEN {[stdout |-> ListNamesOutput(st), sets |-> st]}
           ELSE IF ~known THEN {}
           ELSE IF tSorted \in Range(cmd)
             THEN {[stdout |-> ListOutput(n, Sorted(st[n].members, EntryOrder)),
                    sets |-> st]}
           ELSE {[stdout |-> ListOutput(n, q), sets |-> st] :
                    q \in Orderings(st[n].members)}
      [] verb = tSave -> {[stdout |-> SaveOutput(st), sets |-> st]}
      [] verb = tRestore ->
           {[stdout |-> <<>>, sets |-> [x \in Names |-> IF d[x].exists THEN d[x] ELSE st[x]]] :
               d \in {d \in KernelStates :
                        /\ SaveOutput(d) = stdin
                        /\ \A x \in Names : ~(d[x].exists /\ st[x].exists)}}
      [] OTHER -> {}

\* What a failed run may leave on stdout.
PartialOuts == {<<>>, <<"x", NL>>}

\* Every outcome of one invocation: the process cannot be started, exits
\* non-zero (leaving the kernel's sets alone), or does what was asked.
Outcomes(cmd, stdin, st) ==
    {[cmd |-> cmd, exit |-> -1, stdout |-> <<>>, stderr |-> <<>>, sets |-> st]}
    \cup {[cmd |-> cmd, exit |-> 1, stdout |-> o, stderr |-> e, sets |-> st] :
             o \in PartialOuts, e \in StdErrs}
    \cup {[cmd |-> cmd, exit |-> 0, stdout |-> k.stdout, stderr |-> e, sets |-> k.sets] :
             k \in KernelRun(cmd, stdin, st), e \in StdErrs}

\* IPSet.run: what the caller gets back from one outcome.
run(o) == [cmd |-> o.cmd, exit |-> o.exit, stdout |-> o.stdout, stderr |-> o.stderr,
           err |-> RunErr(o.exit)]

\* An error that leaves the captured stderr out.
WrapErrNoStderr(r) == IF ~r.err.nil THEN Errorf(r.err.msg) ELSE NilErr

\* fmt.Errorf("%v: %s", err, stderr), or nil
WrapErr(r) ==
    IF ~r.err.nil THEN Errorf(r.err.msg \o <<": ">> \o r.stderr) ELSE NilErr

----------------------------------------------------------------------------
(* Output parsing *)

\* \s of Go's regexp syntax
WhiteSpace == {" ", "\t", "\n", "\f", "\r"}

\* regexp.MustCompile(`is in set`).Match(t)
MatchIsInSet(t) == \E i \in 1..Len(t) : OccursAt(t, tIsInSet, i)

\* Where `(?m)^(.*\n)*Members:\n` can end: the starts of the lines that are
\* exactly "Members:" and end with a newline.
MembersLines(t) ==
    {i \in 1..Len(t) : (i = 1 \/ t[i - 1] = NL) /\ OccursAt(t, tMembers \o <<NL>>, i)}

SetMax(S) == CHOOSE x \in S : \A y \in S : y <= x
SetMin(S) == CHOOSE x \in S : \A y \in S : x <= y

\* A reluctant (.*\n)*? would stop at the first "Members:" line.
StripHeaderFirst(t) ==
    IF MembersLines(t) = {} THEN t
    ELSE From(t, SetMin(MembersLines(t)) + Len(tMembers) + 1)

\* regexp.MustCompile(`(?m)^(.*\n)*Members:\n`).ReplaceAll(t, nil): the match
\* starts at the first line and the greedy (.*\n)* takes every line it can, so
\* it ends with the last "Members:" line; nothing after it matches again.
StripHeader(t) ==
    IF MembersLines(t) = {} THEN t
    ELSE From(t, SetMax(MembersLines(t)) + Len(tMembers) + 1)

\* End (exclusive) of the run of non-space characters of t that starts at i.
RECURSIVE TokenEnd(_, _)
TokenEnd(t, i) ==
    IF i <= Len(t) /\ t[i] \notin WhiteSpace THEN TokenEnd(t, i + 1) ELSE i

\* End (exclusive) of what .* takes from i: up to the next newline.
RECURSIVE LineEnd(_, _)
LineEnd(t, i) == IF i <= Len(t) /\ t[i] # NL THEN LineEnd(t, i + 1) ELSE i

\* The first groups of regexp.MustCompile(`([^\s]+).*`).FindAllSubmatch(t, -1)
\* from position i on.
RECURSIVE FirstGroups(_, _)
FirstGroups(t, i) ==
    IF i > Len(t) THEN <<>>
    ELSE IF t[i] \in WhiteSpace THEN FirstGroups(t, i + 1)
    ELSE <<SubSeq(t, i, TokenEnd(t, i) - 1)>> \o FirstGroups(t, LineEnd(t, TokenEnd(t, i)))

\* A slice: nil, or its items (var ret []string stays nil until appended to).
Slice(items) == [nil |-> items = <<>>, items |-> items]
NilSlice == [nil |-> TRUE, items |-> <<>>]

\* The body of List and of ListSorted after a successful run.
ParseList(stdout) == Slice(FirstGroups(StripHeader(stdout), 1))

\* strings.Split(t, "\n")
RECURSIVE SplitLines(_)
SplitLines(t) ==
    IF \A i \in 1..Len(t) : t[i] # NL THEN <<t>>
    ELSE LET i == SetMin({k \in 1..Len(t) : t[k] = NL})
         IN <<SubSeq(t, 1, i - 1)>> \o SplitLines(From(t, i + 1))

\* strconv.Itoa
RECURSIVE FormatUint(_)
FormatUint(n) ==
    IF n < 10 THEN <<DigitChar(n)>> ELSE FormatUint(n \div 10) \o <<DigitChar(n % 10)>>

Itoa(n) == IF n < 0 THEN <<"-">> \o FormatUint(-n) ELSE FormatUint(n)

----------------------------------------------------------------------------
(* Spec: the public operations of an IPSet against the kernel's sets.  The *)
(* caller issues one call at a time (ret holds the call's results until the *)
(* caller goes on); Replace is a sequence of invocations,                  *)
(* between which another process may change the set.                       *)

\* Arguments the calls are drawn from
HashTypes == {tHashPfx \o <<"i", "p">>, <<"l", "i", "s", "t", ":", "s", "e", "t">>,
              <<"h", "a", "s", "h">>, <<>>}
ParamsSet == [HashFamily : {<<>>, tInet6}, HashSize : {0, -1, 2048},
              MaxElem : {0, 10}, Timeout : {0, 60}]
OptsSet == {<<>>, <<tExist>>}
MaxEntries == 2
EntryLists == SeqsUpTo(Entries, MaxEntries)
RestoreInputs == {SaveOutput(d) : d \in KernelStates} \cup {<<"x", NL>>}

Running == [op |-> "running"]

Init ==
    /\ sets \in KernelStates
    /\ env = <<>>
    /\ ret = NoCall
    /\ rp = Idle
    /\ interfered = FALSE

\* One invocation as the call's record keeps it.
Inv(r) == [cmd |-> r.cmd, exit |-> r.exit, stdout |-> r.stdout, stderr |-> r.stderr]

\* What a call of one invocation that returns only an error leaves in ret.
Returned(op, args, before, r) ==
    [op |-> op, args |-> args, before |-> before, inv |-> <<Inv(r)>>, err |-> WrapErr(r)]

\* What a call of one invocation that returns (value, error) leaves in ret:
\* a nil value with the error, else the value made of stdout.
ReturnedValue(op, args, before, r, value) ==
    [op |-> op, args |-> args, before |-> before, inv |-> <<Inv(r)>>, err |-> WrapErr(r),
     val |-> IF ~r.err.nil THEN NilSlice ELSE value]

\* Create with the defaults applied to every zero field, Timeout included.
ApplyDefaultsAll(p) ==
    [HashFamily |-> IF p.HashFamily = <<>> THEN tInet ELSE p.HashFamily,
     HashSize |-> IF p.HashSize = 0 THEN 1024 ELSE p.HashSize,
     MaxElem |-> IF p.MaxElem = 0 THEN 65536 ELSE p.MaxElem,
     Timeout |-> IF p.Timeout = 0 THEN 1024 ELSE p.Timeout]

\* Create: set default ipset values
ApplyDefaults(p) ==
    [HashFamily |-> IF p.HashFamily = <<>> THEN tInet ELSE p.HashFamily,
     HashSize |-> IF p.HashSize = 0 THEN 1024 ELSE p.HashSize,
     MaxElem |-> IF p.MaxElem = 0 THEN 65536 ELSE p.MaxElem,
     Timeout |-> p.Timeout]

\* Create: the command line
CreateCmd(name, hashType, p, opts) ==
    <<tCreate, name, hashType, tFamily, p.HashFamily, tHashsize, Itoa(p.HashSize),
      tMaxelem, Itoa(p.MaxElem), tTimeout, Itoa(p.Timeout)>> \o opts

\* A hash type check that looks for "hash" only.
IsHashTypeLoose(hashType) == HasPrefix(hashType, SubSeq(tHashPfx, 1, 4))

\* Create: check hash type is in form 'hash:<TYPE>'
IsHashType(hashType) == HasPrefix(hashType, tHashPfx)

Create(name, hashType, p, opts) ==
    /\ ret = NoCall
    /\ LET q == ApplyDefaults(p)
           args == [name |-> name, hashType |-> hashType, p |-> p, opts |-> opts]
       IN
       IF ~IsHashType(hashType)
         THEN /\ ret' = [op |-> "Create", args |-> args, before |-> sets, pOut |-> q,
                         inv |-> <<>>, err |-> Errorf(<<"not a hash type: ">> \o hashType)]
              /\ sets' = sets
         ELSE \E o \in Outcomes(CreateCmd(name, hashType, q, opts), <<>>, sets) :
                /\ sets' = o.sets
                /\ ret' = [op |-> "Create", args |-> args, before |-> sets, pOut |-> q,
                           inv |-> <<Inv(run(o))>>, err |-> WrapErr(run(o))]
    /\ UNCHANGED <<env, rp, interfered>>

\* An Add that runs the command a second time when the first run fails.
AddRetrying(name, entry, opts) ==
    /\ ret = NoCall
    /\ \E o \in Outcomes(<<tAdd, name, entry>> \o opts, <<>>, sets) :
         IF o.exit = 0
           THEN /\ sets' = o.sets
                /\ ret' = Returned("Add", [name |-> name, entry |-> entry, opts |-> opts],
                                   sets, run(o))
           ELSE \E o2 \in Outcomes(<<tAdd, name, entry>> \o opts, <<>>, sets) :
                  /\ sets' = o2.sets
                  /\ ret' = [op |-> "Add",
                             args |-> [name |-> name, entry |-> entry, opts |-> opts],
                             before |-> sets, inv |-> <<Inv(run(o)), Inv(run(o2))>>,
                             err |-> WrapErr(run(o2))]
    /\ UNCHANGED <<env, rp, interfered>>

Add(name, entry, opts) ==
    /\ ret = NoCall
    /\ \E o \in Outcomes(<<tAdd, name, entry>> \o opts, <<>>, sets) :
         /\ sets' = o.sets
         /\ ret' = Returned("Add", [name |-> name, entry |-> entry, opts |-> opts], sets, run(o))
    /\ UNCHANGED <<env, rp, interfered>>

Del(name, entry, opts) ==
    /\ ret = NoCall
    /\ \E o \in Outcomes(<<tDel, name, entry>> \o opts, <<>>, sets) :
         /\ sets' = o.sets
         /\ ret' = Returned("Del", [name |-> name, entry |-> entry, opts |-> opts], sets, run(o))
    /\ UNCHANGED <<env, rp, interfered>>

Destroy(name, opts) ==
    /\ ret = NoCall
    /\ \E o \in Outcomes(<<tDestroy, name>> \o opts, <<>>, sets) :
         /\ sets' = o.sets
         /\ ret' = Returned("Destroy", [name |-> name, opts |-> opts], sets, run(o))
    /\ UNCHANGED <<env, rp, interfered>>

DestroyAll ==
    /\ ret = NoCall
    /\ \E o \in Outcomes(<<tDestroy>>, <<>>, sets) :
         /\ sets' = o.sets
         /\ ret' = Returned("DestroyAll", <<>>, sets, run(o))
    /\ UNCHANGED <<env, rp, interfered>>

Flush(name, opts) ==
    /\ ret = NoCall
    /\ \E o \in Outcomes(<<tFlush, name>> \o opts, <<>>, sets) :
         /\ sets' = o.sets
         /\ ret' = Returned("Flush", [name |-> name, opts |-> opts], sets, run(o))
    /\ UNCHANGED <<env, rp, interfered>>

FlushAll ==
    /\ ret = NoCall
    /\ \E o \in Outcomes(<<tFlush>>, <<>>, sets) :
         /\ sets' = o.sets
         /\ ret' = Returned("FlushAll", <<>>, sets, run(o))
    /\ UNCHANGED <<env, rp, interfered>>

Swap(from, to) ==
    /\ ret = NoCall
    /\ \E o \in Outcomes(<<tSwap, from, to>>, <<>>, sets) :
         /\ sets' = o.sets
         /\ ret' = Returned("Swap", [from |-> from, to |-> to], sets, run(o))
    /\ UNCHANGED <<env, rp, interfered>>

Restore(data) ==
    /\ ret = NoCall
    /\ \E o \in Outcomes(<<tRestore>>, data, sets) :
         /\ sets' = o.sets
         /\ ret' = Returned("Restore", [data |-> data], sets, run(o))
    /\ UNCHANGED <<env, rp, interfered>>

List(name) ==
    /\ ret = NoCall
    /\ \E o \in Outcomes(<<tList, name>>, <<>>, sets) :
         /\ sets' = o.sets
         /\ ret' = ReturnedValue("List", [name |-> name], sets, run(o), ParseList(o.stdout))
    /\ UNCHANGED <<env, rp, interfered>>

ListSorted(name) ==
    /\ ret = NoCall
    /\ \E o \in Outcomes(<<tList, name, tSorted>>, <<>>, sets) :
         /\ sets' = o.sets
         /\ ret' = ReturnedValue("ListSorted", [name |-> name], sets, run(o), ParseList(o.stdout))
    /\ UNCHANGED <<env, rp, interfered>>

\* ListSets's value: strings.Split(string(stdout), "\n")
SplitNames(stdout) == [nil |-> FALSE, items |-> SplitLines(stdout)]

ListSets ==
    /\ ret = NoCall
    /\ \E o \in Outcomes(<<tList, tDashN>>, <<>>, sets) :
         /\ sets' = o.sets
         /\ ret' = ReturnedValue("ListSets", <<>>, sets, run(o), SplitNames(o.stdout))
    /\ UNCHANGED <<env, rp, interfered>>

\* Save's value: stdout as it is
SaveBytes(stdout) == [nil |-> FALSE, items |-> stdout]

Save ==
    /\ ret = NoCall
    /\ \E o \in Outcomes(<<tSave>>, <<>>, sets) :
         /\ sets' = o.sets
         /\ ret' = ReturnedValue("Save", <<>>, sets, run(o), SaveBytes(o.stdout))
    /\ UNCHANGED <<env, rp, interfered>>

\* What `ipset test` may print, on either stream.
TestTexts(name, entry) ==
    {<<>>,
     entry \o <<" ">> \o tIsInSet \o <<" ">> \o name \o <<".", NL>>,
     entry \o <<" ">> \o tNotInSet \o <<" ">> \o name \o <<".", NL>>}

\* A Test that reports an entry it did not find as (false, nil).
TestResultAbsentNil(r) ==
    IF ~r.err.nil THEN [ok |-> FALSE, err |-> WrapErr(r)]
    ELSE IF MatchIsInSet(r.stdout) THEN [ok |-> TRUE, err |-> NilErr]
    ELSE [ok |-> FALSE, err |-> NilErr]

\* Test's results from one invocation.
TestResult(r) ==
    IF ~r.err.nil THEN [ok |-> FALSE, err |-> WrapErr(r)]
    ELSE IF MatchIsInSet(r.stdout) THEN [ok |-> TRUE, err |-> NilErr]
    ELSE [ok |-> FALSE, err |-> Errorf(r.stderr)]

\* Test leaves the sets alone; the wrapper is checked against every exit
\* status and every placing of the message on stdout or stderr.
Test(name, entry) ==
    /\ ret = NoCall
    /\ \E exit \in {0, 1, -1}, out \in TestTexts(name, entry), e \in TestTexts(name, entry) :
         /\ exit = -1 => out = <<>> /\ e = <<>>
         /\ LET r == run([cmd |-> <<tTest, name, entry>>, exit |-> exit,
                          stdout |-> out, stderr |-> e])
            IN ret' = [op |-> "Test", args |-> [name |-> name, entry |-> entry],
                       before |-> sets, inv |-> <<Inv(r)>>,
                       ok |-> TestResult(r).ok, err |-> TestResult(r).err]
    /\ UNCHANGED <<sets, env, rp, interfered>>

\* Replace's first command with the set name left out: `ipset flush`.
ReplaceFlushAllCmd(name) == <<tFlush>>

\* Replace: ips.Flush(name)
ReplaceFlushCmd(name) == <<tFlush, name>>

\* A loop that goes on after a failed Add and reports the last Add's error.
ReplaceReturnsAtEnd(err, next, entries) == next = Len(entries)

\* Replace returns once a step has failed or every entry has been added.
ReplaceReturns(err, next, entries) == ~err.nil \/ next = Len(entries)

\* One invocation as Replace's record keeps it.
Step(r) == [cmd |-> r.cmd, exit |-> r.exit]

ReplaceRecord(name, entries, before, inv, err, other) ==
    [op |-> "Replace", args |-> [name |-> name, entries |-> entries],
     before |-> before, inv |-> inv, err |-> err, interfered |-> other]

\* Replace, up to and including its Flush.
ReplaceFlush(name, entries) ==
    /\ ret = NoCall
    /\ \E o \in Outcomes(ReplaceFlushCmd(name), <<>>, sets) :
         LET err == WrapErr(run(o))
             inv == <<Step(run(o))>>
         IN
         /\ sets' = o.sets
         /\ IF ReplaceReturns(err, 0, entries)
              THEN /\ ret' = ReplaceRecord(name, entries, sets, inv, err, FALSE)
                   /\ rp' = Idle
              ELSE /\ ret' = Running
                   /\ rp' = [active |-> TRUE, name |-> name, entries |-> entries,
                             next |-> 0, before |-> sets, inv |-> inv]
    /\ interfered' = FALSE
    /\ UNCHANGED env

\* Replace, one turn of its loop: the Add of the next entry.
ReplaceAdd ==
    /\ rp.active
    /\ \E o \in Outcomes(<<tAdd, rp.name, rp.entries[rp.next + 1]>>, <<>>, sets) :
         LET err == WrapErr(run(o))
             inv == Append(rp.inv, Step(run(o)))
         IN
         /\ sets' = o.sets
         /\ IF ReplaceReturns(err, rp.next + 1, rp.entries)
              THEN /\ ret' = ReplaceRecord(rp.name, rp.entries, rp.before, inv, err,
                                           interfered)
                   /\ rp' = Idle
                   /\ interfered' = FALSE
              ELSE /\ ret' = ret
                   /\ rp' = [rp EXCEPT !.next = @ + 1, !.inv = inv]
                   /\ interfered' = interfered
    /\ UNCHANGED env

\* Between two invocations of Replace nothing keeps another process from
\* changing the set.
Interfere ==
    /\ rp.active
    /\ \E c \in SetStates \ {sets[rp.name]} : sets' = [sets EXCEPT ![rp.name] = c]
    /\ interfered' = TRUE
    /\ UNCHANGED <<env, ret, rp>>

\* The caller has taken the results of the call and may issue the next one.
Continue ==
    /\ ret.op \notin {"none", "running"}
    /\ ret' = NoCall
    /\ UNCHANGED <<sets, env, rp, interfered>>

Next ==
    \/ \E name \in Names, hashType \in HashTypes, p \in ParamsSet, opts \in OptsSet :
         Create(name, hashType, p, opts)
    \/ \E name \in Names, entry \in Entries, opts \in OptsSet : Add(name, entry, opts)
    \/ \E name \in Names, entry \in Entries, opts \in OptsSet : Del(name, entry, opts)
    \/ \E name \in Names, entry \in Entries : Test(name, entry)
    \/ \E name \in Names, opts \in OptsSet : Destroy(name, opts)
    \/ DestroyAll
    \/ \E name \in Names : List(name)
    \/ \E name \in Names : ListSorted(name)
    \/ ListSets
    \/ \E name \in Names, opts \in OptsSet : Flush(name, opts)
    \/ FlushAll
    \/ \E from \in Names, to \in Names : Swap(from, to)
    \/ \E name \in Names, entries \in EntryLists : ReplaceFlush(name, entries)
    \/ ReplaceAdd
    \/ Interfere
    \/ Save
    \/ \E data \in RestoreInputs : Restore(data)
    \/ Continue

Spec == Init /\ [][Next]_vars

----------------------------------------------------------------------------
(* SpecList: List and ListSorted against the texts `ipset list` may print, *)
(* made of up to MaxLines lines.                                           *)

MaxLines == 3

ListLines ==
    {tMembers,
     tNameHdr \o <<"a">>,
     <<"1", ".", "1">>,
     <<"2", ".", "2", " ", "t", "i", "m", "e", "o", "u", "t", " ", "1", "0">>,
     <<" ", "\t", "3">>,
     <<>>,
     <<" ", " ">>,
     <<"x">> \o tMembers}

\* The lines joined by newlines; the last one ends with a newline when nl.
TextOf(lines, nl) ==
    IF lines = <<>> THEN <<>>
    ELSE IF nl THEN Unlines(lines)
    ELSE SubSeq(Unlines(lines), 1, Len(Unlines(lines)) - 1)

\* ipset ends its "Members:" line with a newline; the last member line may
\* lack one.
InitList ==
    /\ sets \in {[n \in Names |-> Present({})]}
    /\ rp = Idle
    /\ interfered = FALSE
    /\ ret = NoCall
    /\ \E lines \in SeqsUpTo(ListLines, MaxLines), nl \in BOOLEAN,
          exit \in {0, 1}, stderr \in StdErrs :
         /\ lines = <<>> => nl
         /\ (lines # <<>> /\ lines[Len(lines)] = tMembers) => nl
         /\ env = [lines |-> lines, nl |-> nl,
                   o |-> [exit |-> exit, stdout |-> TextOf(lines, nl), stderr |-> stderr]]

\* List(name) when `ipset list name` ends as env.o says.
ListText(name) ==
    /\ ret = NoCall
    /\ LET o == [cmd |-> <<tList, name>>] @@ env.o
       IN ret' = ReturnedValue("List", [name |-> name], sets, run(o), ParseList(o.stdout))
    /\ UNCHANGED <<sets, env, rp, interfered>>

\* ListSorted(name) when `ipset list name -sorted` ends as env.o says.
ListSortedText(name) ==
    /\ ret = NoCall
    /\ LET o == [cmd |-> <<tList, name, tSorted>>] @@ env.o
       IN ret' = ReturnedValue("ListSorted", [name |-> name], sets, run(o),
                               ParseList(o.stdout))
    /\ UNCHANGED <<sets, env, rp, interfered>>

NextList ==
    \/ \E name \in Names : ListText(name)
    \/ \E name \in Names : ListSortedText(name)

SpecList == InitList /\ [][NextList]_vars

----------------------------------------------------------------------------
(* Claims about New (checked under SpecVersion) *)

\* The places <<i, j, k>> of t that hold a token v<major>.<minor>: "v" at i,
\* the digits of major, "." at j, the digits of minor up to k (all of them).
VersionTokens(t) ==
    {p \in (1..Len(t)) \X (1..Len(t)) \X (1..Len(t)) :
        /\ p[1] + 1 < p[2] /\ p[2] < p[3]
        /\ t[p[1]] = "v"
        /\ \A x \in (p[1] + 1)..(p[2] - 1) : t[x] \in Digits
        /\ t[p[2]] = "."
        /\ \A x \in (p[2] + 1)..p[3] : t[x] \in Digits
        /\ (p[3] = Len(t) \/ t[p[3] + 1] \notin Digits)}

FirstVersionToken(t) ==
    CHOOSE p \in VersionTokens(t) : \A q \in VersionTokens(t) : p[1] <= q[1]

RECURSIVE Pow10(_)
Pow10(n) == IF n = 0 THEN 1 ELSE 10 * Pow10(n - 1)

RECURSIVE NumberOf(_, _)
NumberOf(s, i) ==
    IF i > Len(s) THEN 0 ELSE DigitVal(s[i]) * Pow10(Len(s) - i) + NumberOf(s, i + 1)

TokenMajor(t) ==
    LET p == FirstVersionToken(t) IN NumberOf(SubSeq(t, p[1] + 1, p[2] - 1), 1)

\* The binary was found, `ipset --version` exited 0, its output holds a
\* version token, and major.minor.0 >= 6.0.0.
VersionAccepted ==
    /\ env.look
    /\ env.exit = 0
    /\ VersionTokens(env.stdout) # {}
    /\ TokenMajor(env.stdout) >= 6

\* C1: New returns a non-nil IPSet with a nil error only when the binary is
\* found, `ipset --version` succeeds, its output holds a v<major>.<minor> token
\* and that version is at least 6.0.0; in every other case it returns a nil
\* IPSet and a non-nil error.
C1_NewAcceptsOnlySupported ==
    ret.op = "New" =>
        /\ (ret.ips /\ ret.err.nil) => VersionAccepted
        /\ ~VersionAccepted => (~ret.ips /\ ~ret.err.nil)

\* New has accepted a two-digit major version (10 >= 6, although "1" < "6").
C1_Witness ==
    /\ ret.op = "New"
    /\ ret.ips /\ ret.err.nil
    /\ VersionTokens(env.stdout) # {}
    /\ TokenMajor(env.stdout) >= 10

----------------------------------------------------------------------------
(* Claims about the operations (checked under Spec) *)

\* hashType starts with the five characters of "hash:".
StartsWithHashColon(h) ==
    /\ Len(h) >= 5
    /\ h[1] = "h" /\ h[2] = "a" /\ h[3] = "s" /\ h[4] = "h" /\ h[5] = ":"

\* The integer a decimal token stands for.
SignedNumber(tok) ==
    IF tok # <<>> /\ tok[1] = "-" THEN 0 - NumberOf(Tail(tok), 1) ELSE NumberOf(tok, 1)

IsDecimal(tok) ==
    LET d == IF tok # <<>> /\ tok[1] = "-" THEN Tail(tok) ELSE tok
    IN d # <<>> /\ \A i \in 1..Len(d) : d[i] \in Digits

\* The members a finished or running Replace has added: entries[1..k].
Prefix(entries, k) == {entries[j] : j \in 1..k}

\* C2: whenever Replace(name, entries) returns nil and no other process has
\* changed the set meanwhile, the members of the set are exactly the elements
\* of entries, whatever the set held before and also for the empty list.
C2_ReplaceOverwrites ==
    (ret.op = "Replace" /\ ret.err.nil /\ ~ret.interfered) =>
        /\ sets[ret.args.name].exists
        /\ sets[ret.args.name].members = Range(ret.args.entries)

\* Replace has returned nil for a non-empty list and a previous member that is
\* not in the list is gone.
C2_Witness ==
    /\ ret.op = "Replace" /\ ret.err.nil /\ ~ret.interfered
    /\ ret.args.entries # <<>>
    /\ ret.before[ret.args.name].members \ Range(ret.args.entries) # {}

\* C3: Create with a hashType that does not start with "hash:" returns a
\* non-nil error, invokes nothing and leaves every set as it was; with a
\* hashType that starts with "hash:" it issues exactly one create invocation.
C3_CreateOnlyHashTypes ==
    ret.op = "Create" =>
        IF StartsWithHashColon(ret.args.hashType)
          THEN Len(ret.inv) = 1 /\ ret.inv[1].cmd[1] = tCreate
          ELSE ~ret.err.nil /\ ret.inv = <<>> /\ sets = ret.before

\* Create has refused the type "hash" (no colon) without invoking ipset.
C3_Witness ==
    /\ ret.op = "Create"
    /\ ret.args.hashType = <<"h", "a", "s", "h">>
    /\ ~ret.err.nil /\ ret.inv = <<>>

\* C4: the create command is name, hashType, family, hashsize, maxelem,
\* timeout and then opts in their order; family is p.HashFamily or "inet" when
\* empty, hashsize p.HashSize or 1024 when 0, maxelem p.MaxElem or 65536 when
\* 0, timeout always p.Timeout; no non-zero field is replaced by a default.
C4_CreateCommand ==
    (ret.op = "Create" /\ Len(ret.inv) = 1) =>
        LET cmd == ret.inv[1].cmd
            a == ret.args
        IN
        /\ Len(cmd) = 11 + Len(a.opts)
        /\ cmd[1] = tCreate /\ cmd[2] = a.name /\ cmd[3] = a.hashType
        /\ cmd[4] = tFamily
        /\ cmd[5] = (IF a.p.HashFamily = <<>> THEN tInet ELSE a.p.HashFamily)
        /\ cmd[6] = tHashsize /\ IsDecimal(cmd[7])
        /\ SignedNumber(cmd[7]) = (IF a.p.HashSize = 0 THEN 1024 ELSE a.p.HashSize)
        /\ cmd[8] = tMaxelem /\ IsDecimal(cmd[9])
        /\ SignedNumber(cmd[9]) = (IF a.p.MaxElem = 0 THEN 65536 ELSE a.p.MaxElem)
        /\ cmd[10] = tTimeout /\ IsDecimal(cmd[11])
        /\ SignedNumber(cmd[11]) = a.p.Timeout
        /\ SubSeq(cmd, 12, Len(cmd)) = a.opts

\* Create has run with an empty family, a negative hashsize, maxelem 0,
\* timeout 0 and an option.
C4_Witness ==
    /\ ret.op = "Create" /\ Len(ret.inv) = 1
    /\ ret.args.p.HashFamily = <<>> /\ ret.args.p.HashSize < 0
    /\ ret.args.p.MaxElem = 0 /\ ret.args.p.Timeout = 0
    /\ ret.args.opts # <<>>

PublicOps == {"Create", "Add", "Del", "Test", "Destroy", "List", "Flush", "Swap",
              "Replace", "Save", "Restore"}

\* C5 as stated: every call of Create, Add, Del, Test, Destroy, List, Flush,
\* Swap, Replace, Save or Restore results in exactly one invocation of the
\* ipset subprocess, whatever its arguments.
C5_OneInvocationPerCall == ret.op \in PublicOps => Len(ret.inv) = 1

\* C5 as amended: Add, Del, Test, Destroy, List, Flush, Swap, Save and Restore
\* result in exactly one invocation; Create in one when hashType starts with
\* "hash:" and in none otherwise; Replace in one flush and then one add per
\* entry up to and including the first invocation that fails.
C5_InvocationsPerCall ==
    ret.op \in PublicOps =>
        IF ret.op = "Create"
          THEN Len(ret.inv) = (IF StartsWithHashColon(ret.args.hashType) THEN 1 ELSE 0)
        ELSE IF ret.op = "Replace"
          THEN /\ 1 <= Len(ret.inv) /\ Len(ret.inv) <= 1 + Len(ret.args.entries)
               /\ \A k \in 1..(Len(ret.inv) - 1) : ret.inv[k].exit = 0
               /\ Len(ret.inv) < 1 + Len(ret.args.entries) => ret.inv[Len(ret.inv)].exit # 0
        ELSE Len(ret.inv) = 1

\* A Replace of two entries has returned after three invocations.
C5_Witness ==
    /\ ret.op = "Replace"
    /\ Len(ret.args.entries) = 2
    /\ Len(ret.inv) = 3

ErrorOps == {"Add", "Del", "Destroy", "DestroyAll", "Flush", "FlushAll", "Swap", "Save",
             "Restore", "List", "ListSorted", "ListSets"}
ValueOps == {"List", "ListSorted", "ListSets", "Save"}

\* text ends with the characters of tail
EndsWith(text, tail) ==
    /\ Len(text) >= Len(tail)
    /\ SubSeq(text, Len(text) - Len(tail) + 1, Len(text)) = tail

\* C6: Add, Del, Destroy, DestroyAll, Flush, FlushAll, Swap, Save, Restore,
\* List, ListSorted and ListSets return a non-nil error if and only if the
\* subprocess failed (could not run or exited non-zero); the error carries the
\* captured stderr; on failure List, ListSorted, ListSets and Save return nil;
\* there is one invocation only (no retry).
C6_ErrorIsSubprocessOutcome ==
    ret.op \in ErrorOps =>
        /\ Len(ret.inv) = 1
        /\ ~ret.err.nil <=> ret.inv[1].exit # 0
        /\ ~ret.err.nil => EndsWith(ret.err.msg, ret.inv[1].stderr)
        /\ (ret.op \in ValueOps /\ ~ret.err.nil) => ret.val.nil /\ ret.val.items = <<>>

\* List has failed with text on stdout and on stderr, and returned nil.
C6_Witness ==
    /\ ret.op = "List"
    /\ ret.inv[1].exit = 1
    /\ ret.inv[1].stdout # <<>> /\ ret.inv[1].stderr # <<>>
    /\ ~ret.err.nil /\ ret.val.nil

\* C7: when the subprocess succeeds, ListSets returns exactly the names of
\* the existing sets, one element per set and no other element: no empty
\* string, and an empty slice when no set exists.
C7_ListSetsExactNames ==
    (ret.op = "ListSets" /\ ret.err.nil) =>
        /\ Range(ret.val.items) = {n \in Names : sets[n].exists}
        /\ Len(ret.val.items) = Cardinality({n \in Names : sets[n].exists})

\* t holds "is in set" somewhere.
HoldsIsInSet(t) ==
    \E i \in 0..(Len(t) - 9) :
        /\ t[i + 1] = "i" /\ t[i + 2] = "s" /\ t[i + 3] = " "
        /\ t[i + 4] = "i" /\ t[i + 5] = "n" /\ t[i + 6] = " "
        /\ t[i + 7] = "s" /\ t[i + 8] = "e" /\ t[i + 9] = "t"

\* C8: Test returns (true, nil) exactly when the subprocess exits 0 and its
\* stdout contains "is in set"; in every other case it returns false with a
\* non-nil error, so it never returns (false, nil).
C8_TestResults ==
    ret.op = "Test" =>
        /\ (ret.ok /\ ret.err.nil) <=>
               (ret.inv[1].exit = 0 /\ HoldsIsInSet(ret.inv[1].stdout))
        /\ ~(ret.ok /\ ret.err.nil) => (~ret.ok /\ ~ret.err.nil)

\* Test has returned (false, error) although ipset exited 0 and wrote
\* "is in set" to stderr.
C8_Witness ==
    /\ ret.op = "Test"
    /\ ret.inv[1].exit = 0
    /\ ~HoldsIsInSet(ret.inv[1].stdout) /\ HoldsIsInSet(ret.inv[1].stderr)
    /\ ~ret.ok /\ ~ret.err.nil

\* The invocations of a Replace of entries on name, in order: the flush,
\* then the adds of entries[1], entries[2], ...
ReplaceSequence(inv, name, entries) ==
    /\ 1 <= Len(inv) /\ Len(inv) <= 1 + Len(entries)
    /\ inv[1].cmd = <<tFlush, name>>
    /\ \A k \in 2..Len(inv) : inv[k].cmd = <<tAdd, name, entries[k - 1]>>
    /\ \A k \in 1..(Len(inv) - 1) : inv[k].exit = 0

\* C10: Replace issues `flush name`, then one `add name entry` per entry in
\* list order, and stops at the first failing step, returning its error.  If
\* the flush fails no add is issued and the set is unchanged; at every point
\* after a successful flush, absent other writers, the members are exactly
\* the entries already added, a prefix of the list; after a failed add of
\* entries[i] the set holds exactly the entries before it.
C10_ReplaceSequence ==
    /\ rp.active =>
         /\ ReplaceSequence(rp.inv, rp.name, rp.entries)
         /\ rp.inv[Len(rp.inv)].exit = 0
         /\ Len(rp.inv) = rp.next + 1 /\ rp.next < Len(rp.entries)
         /\ ~interfered =>
              /\ sets[rp.name].exists
              /\ sets[rp.name].members = Prefix(rp.entries, rp.next)
    /\ ret.op = "Replace" =>
         LET n == Len(ret.inv)
             name == ret.args.name
             failed == ret.inv[n].exit # 0
         IN
         /\ ReplaceSequence(ret.inv, name, ret.args.entries)
         /\ ~ret.err.nil <=> failed
         /\ ~failed => n = 1 + Len(ret.args.entries)
         /\ ret.inv[1].exit # 0 => n = 1 /\ sets = ret.before
         /\ (ret.inv[1].exit = 0 /\ ~ret.interfered) =>
              /\ sets[name].exists
              /\ sets[name].members =
                   Prefix(ret.args.entries, IF failed THEN n - 2 ELSE n - 1)

\* Replace has stopped at the failed add of its second entry: the set holds
\* the first entry only and what it held before is lost.
C10_Witness ==
    /\ ret.op = "Replace" /\ ~ret.interfered
    /\ Len(ret.inv) = 3 /\ ret.inv[3].exit # 0 /\ ~ret.err.nil
    /\ sets[ret.args.name].members = {ret.args.entries[1]}
    /\ ret.before[ret.args.name].members \ {ret.args.entries[1]} # {}

----------------------------------------------------------------------------
(* Claims about List and ListSorted (checked under SpecList) *)

IsBlank(line) == \A i \in 1..Len(line) : line[i] \in WhiteSpace

\* The first whitespace-delimited token of a line that is not blank.
FirstToken(line) ==
    LET i == SetMin({k \in 1..Len(line) : line[k] \notin WhiteSpace})
        j == SetMax({k \in i..Len(line) : \A x \in i..k : line[x] \notin WhiteSpace})
    IN SubSeq(line, i, j)

\* The first tokens of the lines of q that are not blank, in order.
RECURSIVE FirstTokens(_)
FirstTokens(q) ==
    IF q = <<>> THEN <<>>
    ELSE (IF IsBlank(Head(q)) THEN <<>> ELSE <<FirstToken(Head(q))>>)
         \o FirstTokens(Tail(q))

\* The places of the "Members:" header lines among the lines.
HeaderPlaces(lines) == {k \in 1..Len(lines) : lines[k] = tMembers}

AfterLastHeader(lines) == SubSeq(lines, SetMax(HeaderPlaces(lines)) + 1, Len(lines))

\* C9: when the subprocess succeeds, List and ListSorted discard everything
\* up to and including the last "Members:" header line and return, in output
\* order, the first whitespace-delimited token of every non-blank line after
\* it (so per-entry options are dropped), a nil result when no member line
\* follows; with only member lines after the header, no header line (Name,
\* Members) appears in the result.
C9_ListReturnsMembers ==
    (ret.op \in {"List", "ListSorted"} /\ ret.err.nil /\ HeaderPlaces(env.lines) # {}) =>
        LET after == AfterLastHeader(env.lines) IN
        /\ ret.val.items = FirstTokens(after)
        /\ ret.val.nil <=> (\A k \in 1..Len(after) : IsBlank(after[k]))
        /\ (\A k \in 1..Len(after) : after[k] \notin {tNameHdr \o <<"a">>, <<"x">> \o tMembers})
             => \A i \in 1..Len(ret.val.items) :
                  ret.val.items[i] \notin {tMembers, <<"N", "a", "m", "e", ":">>}

\* List has parsed an output with two "Members:" lines, the last followed by
\* a member line with an option and an unterminated member line.
C9_Witness ==
    /\ ret.op = "List" /\ ret.err.nil
    /\ Cardinality(HeaderPlaces(env.lines)) = 2
    /\ ~env.nl
    /\ Len(ret.val.items) = 1
    /\ ret.val.items[1] = <<"2", ".", "2">>

====
